---- MODULE Spec2Model ----
(***************************************************************************)
(* KnowledgeArchive (autogen_ext/agentic_memory/_knowledge_archive.py):    *)
(* the in-memory insight dict, its id counter, the pickle file mirroring   *)
(* it on disk, and the MemoStore the archive indexes topics in.            *)
(* Distances and relevance scores are integer tenths (1.7 is 17).          *)
(***************************************************************************)
EXTENDS Integers, Sequences, FiniteSets, TLC

VARIABLES
    pc,                \* position of the process: "down" (no archive object), "idle", or inside save_archive
    uid_insight_dict,  \* self.uid_insight_dict
    last_insight_id,   \* self.last_insight_id
    memo_store,        \* self.memo_store: the associations (topic, id) held in memory
    disk_memos,        \* the associations the MemoStore has flushed to its directory
    disk_dict,         \* the file at self.path_to_dict
    call,              \* the call in progress, or the last one made
    result,            \* how the last call ended
    matches,           \* get_relevant_insights: the local list of matches
    ret,               \* get_relevant_insights: the returned dict
    allocated,         \* history: ids of the adds that returned on this object, in call order
    only_ok,           \* history: this object started empty and every add made on it has returned
    partial            \* history: an add failed part-way and no add has returned since

vars == <<pc, uid_insight_dict, last_insight_id, memo_store, disk_memos, disk_dict,
          call, result, matches, ret, allocated, only_ok, partial>>

----------------------------------------------------------------------------
(* Bounds and inputs *)

MaxId == 2          \* adds are offered while last_insight_id < MaxId
MaxMemos == 3       \* adds are offered while the store has room for their topics
MaxMatches == 2     \* longest list of matches the index returns to one query

NoneStr == "<None>"                       \* Python's None, for an Optional[str]
NoneTopics == [some |-> FALSE, v |-> <<>>] \* Python's None, for an Optional[List[str]]
Some(l) == [some |-> TRUE, v |-> l]

InsightStrs == {"a"}
TaskStrs == {NoneStr, "T"}
AddTaskStrs == {NoneStr}
Demonstrations == {"D"}
InsightTopicArgs == {NoneTopics, Some(<<>>), Some(<<"t1">>)}
DemonstrationTopicArgs == {NoneTopics, Some(<<"t1", "t2">>)}
QueryTopicArgs == {NoneTopics, Some(<<>>), Some(<<"t1", "t2">>)}
Distances == {10, 12, 17, 20}

----------------------------------------------------------------------------
(* Python values *)

EmptyDict == [k \in {} |-> 0]

\* d[k] = v
Put(d, k, v) == [x \in (DOMAIN d) \cup {k} |-> IF x = k THEN v ELSE d[x]]

\* str(n)
Str(n) == ToString(n)

\* the dataclass Insight
Insight(id, insight_str, task_str, topics) ==
    [id |-> id, insight_str |-> insight_str, task_str |-> task_str, topics |-> topics]

\* the format string filled with its arguments the other way round
DemonstrationStrSwapped(task, demonstration) ==
    "Example task:\n\n" \o demonstration \o "\nExample solution:\n\n" \o task

\* "Example task:\n\n{}\nExample solution:\n\n{}".format(task, demonstration)
DemonstrationStr(task, demonstration) ==
    "Example task:\n\n" \o task \o "\nExample solution:\n\n" \o demonstration

----------------------------------------------------------------------------
(* The pickle file.  A file is a list of items closed by pickle's STOP      *)
(* opcode; open(path, "wb") leaves an existing, empty, unclosed file.       *)

NoFile == [exists |-> FALSE, items |-> <<>>, stop |-> FALSE]
Truncated == [exists |-> TRUE, items |-> <<>>, stop |-> FALSE]

\* the keys of d, as the list pickle walks them
RECURSIVE KeysFrom(_, _)
KeysFrom(d, n) ==
    IF n = 0 THEN <<>>
    ELSE IF Str(n) \in DOMAIN d THEN Append(KeysFrom(d, n - 1), Str(n))
    ELSE KeysFrom(d, n - 1)

Keys(d) == KeysFrom(d, MaxId + 2)

\* pickle.dump(d, file)
PickleDump(d) ==
    [exists |-> TRUE,
     items |-> [i \in 1..Len(Keys(d)) |-> <<Keys(d)[i], d[Keys(d)[i]]>>],
     stop |-> TRUE]

\* pickle.load raises on a file that does not end in STOP
Loadable(f) == f.exists /\ f.stop

\* pickle.load(f)
RECURSIVE LoadItems(_)
LoadItems(items) ==
    IF items = <<>> THEN EmptyDict
    ELSE Put(LoadItems(SubSeq(items, 1, Len(items) - 1)),
             items[Len(items)][1], items[Len(items)][2])

\* a load that loses the last item of the file
PickleLoadShort(f) == LoadItems(SubSeq(f.items, 1, Len(f.items) - 1))

PickleLoad(f) == LoadItems(f.items)

\* len(self.uid_insight_dict)
LenDict(d) == Cardinality(DOMAIN d)

----------------------------------------------------------------------------
(* __init__ *)

\* a call: its name and the arguments and locals the properties below speak of
Call(name, topics, id_str, reset) ==
    [name |-> name, topics |-> topics, id_str |-> id_str, reset |-> reset]

NoCall == Call("none", NoneTopics, "", FALSE)

Init ==
    /\ pc = "down"
    /\ uid_insight_dict = EmptyDict
    /\ last_insight_id = 0
    /\ memo_store = <<>>
    /\ disk_memos = <<>>
    /\ disk_dict = NoFile
    /\ call = NoCall
    /\ result = "none"
    /\ matches = <<>>
    /\ ret = EmptyDict
    /\ allocated = <<>>
    /\ only_ok = TRUE
    /\ partial = FALSE

\* MemoStore(reset=reset, ...): the associations of the directory, wiped if reset
MemoStoreInit(reset) ==
    /\ disk_memos' = (IF reset THEN <<>> ELSE disk_memos)
    /\ memo_store' = (IF reset THEN <<>> ELSE disk_memos)

\* a constructor that takes a file it cannot load for no file
ConstructSwallowing(reset) ==
    /\ pc \in {"down", "idle"}
    /\ call' = Call("__init__", NoneTopics, "", reset)
    /\ MemoStoreInit(reset)
    /\ IF (~reset) /\ Loadable(disk_dict)
         THEN /\ uid_insight_dict' = PickleLoad(disk_dict)
              /\ last_insight_id' = LenDict(PickleLoad(disk_dict))
         ELSE /\ uid_insight_dict' = EmptyDict
              /\ last_insight_id' = 0
    /\ pc' = "idle"
    /\ result' = "ok"
    /\ matches' = <<>>
    /\ ret' = EmptyDict
    /\ allocated' = <<>>
    /\ only_ok' = (uid_insight_dict' = EmptyDict)
    /\ partial' = (~reset /\ partial)
    /\ UNCHANGED disk_dict

\* KnowledgeArchive(reset=reset, ...)
Construct(reset) ==
    /\ pc \in {"down", "idle"}
    /\ call' = Call("__init__", NoneTopics, "", reset)
    /\ MemoStoreInit(reset)
    /\ IF (~reset) /\ disk_dict.exists
         THEN IF Loadable(disk_dict)
                THEN /\ uid_insight_dict' = PickleLoad(disk_dict)
                     /\ last_insight_id' = LenDict(PickleLoad(disk_dict))
                     /\ pc' = "idle"
                     /\ result' = "ok"
                ELSE \* pickle.load raises: no object is constructed
                     /\ uid_insight_dict' = EmptyDict
                     /\ last_insight_id' = 0
                     /\ pc' = "down"
                     /\ result' = "UnpicklingError"
         ELSE /\ uid_insight_dict' = EmptyDict
              /\ last_insight_id' = 0
              /\ pc' = "idle"
              /\ result' = "ok"
    /\ matches' = <<>>
    /\ ret' = EmptyDict
    /\ allocated' = <<>>
    /\ only_ok' = (pc' = "idle" /\ uid_insight_dict' = EmptyDict)
    /\ partial' = (~reset /\ partial)
    /\ UNCHANGED disk_dict

\* the process dies inside an add that has inserted into the index or saved it
Interrupted ==
    /\ call.name \in {"add_insight", "add_demonstration"}
    /\ \/ pc \in {"save_open", "save_dump"}
       \/ pc = "save_memos" /\ call.topics.v # <<>>

\* the process dies (or exits): the object is lost, the files stay
Crash ==
    /\ pc # "down"
    /\ pc' = "down"
    /\ uid_insight_dict' = EmptyDict
    /\ last_insight_id' = 0
    /\ memo_store' = <<>>
    /\ matches' = <<>>
    /\ ret' = EmptyDict
    /\ partial' = (partial \/ Interrupted)
    /\ UNCHANGED <<disk_memos, disk_dict, call, result, allocated, only_ok>>

----------------------------------------------------------------------------
(* add_insight, add_demonstration *)

AddCalls == {"add_insight", "add_demonstration"}

\* a counter that skips a number at each allocation
AllocateIdSkipping(n) == n + 2

\* self.last_insight_id += 1
AllocateId(n) == n + 1

\* the associations the loop over topics has added to the store after k rounds
AddPairs(store, topics, id_str, k) == store \o [i \in 1..k |-> <<topics[i], id_str>>]

\* The body add_insight and add_demonstration share, from the increment to the
\* entry of save_archive.  add_input_output_pair may raise in any round of
\* the loop; the rounds before it have taken effect.
AddBody(name, insight_str, task_str, topics) ==
    LET id_str == Str(AllocateId(last_insight_id))
        insight == Insight(id_str, insight_str, task_str, topics.v)
    IN /\ last_insight_id' = AllocateId(last_insight_id)
       /\ call' = Call(name, topics, id_str, FALSE)
       /\ IF ~topics.some
            THEN \* "for topic in None" raises
                 /\ result' = "TypeError"
                 /\ pc' = "idle"
                 /\ only_ok' = FALSE
                 /\ UNCHANGED <<memo_store, uid_insight_dict, partial>>
            ELSE \E k \in 0..Len(topics.v) :
                 /\ memo_store' = AddPairs(memo_store, topics.v, id_str, k)
                 /\ IF k < Len(topics.v)
                      THEN /\ result' = "IndexError"
                           /\ pc' = "idle"
                           /\ only_ok' = FALSE
                           /\ partial' = (partial \/ k >= 1)
                           /\ UNCHANGED uid_insight_dict
                      ELSE /\ uid_insight_dict' = Put(uid_insight_dict, id_str, insight)
                           /\ result' = "running"
                           /\ pc' = "save_memos"
                           /\ UNCHANGED <<only_ok, partial>>
       /\ matches' = <<>>
       /\ ret' = EmptyDict
       /\ UNCHANGED <<disk_memos, disk_dict, allocated>>

\* an add_insight whose assertion comes after the increment
AddInsightLateAssert(insight_str, task_str, topics) ==
    /\ pc = "idle"
    /\ last_insight_id < MaxId
    /\ Len(memo_store) + Len(topics.v) <= MaxMemos
    /\ IF ~topics.some
         THEN /\ last_insight_id' = AllocateId(last_insight_id)
              /\ call' = Call("add_insight", topics, "", FALSE)
              /\ result' = "AssertionError"
              /\ only_ok' = FALSE
              /\ matches' = <<>>
              /\ ret' = EmptyDict
              /\ UNCHANGED <<pc, uid_insight_dict, memo_store, disk_memos, disk_dict, allocated,
                             partial>>
         ELSE AddBody("add_insight", insight_str, task_str, topics)

\* add_insight(insight_str, task_str, topics)
AddInsight(insight_str, task_str, topics) ==
    /\ pc = "idle"
    /\ last_insight_id < MaxId
    /\ Len(memo_store) + Len(topics.v) <= MaxMemos
    /\ IF ~topics.some
         THEN \* assert topics is not None
              /\ call' = Call("add_insight", topics, "", FALSE)
              /\ result' = "AssertionError"
              /\ only_ok' = FALSE
              /\ matches' = <<>>
              /\ ret' = EmptyDict
              /\ UNCHANGED <<pc, uid_insight_dict, last_insight_id, memo_store,
                             disk_memos, disk_dict, allocated, partial>>
         ELSE AddBody("add_insight", insight_str, task_str, topics)

\* add_demonstration(task, demonstration, topics)
AddDemonstration(task, demonstration, topics) ==
    /\ pc = "idle"
    /\ last_insight_id < MaxId
    /\ Len(memo_store) + Len(topics.v) <= MaxMemos
    /\ AddBody("add_demonstration", DemonstrationStr(task, demonstration), task, topics)

----------------------------------------------------------------------------
(* save_archive *)

\* save_archive(), called by itself
SaveArchive ==
    /\ pc = "idle"
    /\ pc' = "save_memos"
    /\ call' = Call("save_archive", NoneTopics, "", FALSE)
    /\ result' = "running"
    /\ matches' = <<>>
    /\ ret' = EmptyDict
    /\ UNCHANGED <<uid_insight_dict, last_insight_id, memo_store, disk_memos, disk_dict,
                   allocated, only_ok, partial>>

\* self.memo_store.save_memos()
SaveMemos ==
    /\ pc = "save_memos"
    /\ disk_memos' = memo_store
    /\ pc' = "save_open"
    /\ UNCHANGED <<uid_insight_dict, last_insight_id, memo_store, disk_dict, call, result,
                   matches, ret, allocated, only_ok, partial>>

\* open(self.path_to_dict, "wb")
OpenDict ==
    /\ pc = "save_open"
    /\ disk_dict' = Truncated
    /\ pc' = "save_dump"
    /\ UNCHANGED <<uid_insight_dict, last_insight_id, memo_store, disk_memos, call, result,
                   matches, ret, allocated, only_ok, partial>>

\* a dump of the dict as it was before the record of the add was stored
DumpDictStale ==
    /\ pc = "save_dump"
    /\ disk_dict' = PickleDump([k \in (DOMAIN uid_insight_dict) \ {call.id_str}
                                  |-> uid_insight_dict[k]])
    /\ pc' = "idle"
    /\ result' = "ok"
    /\ allocated' = (IF call.name \in AddCalls THEN Append(allocated, call.id_str)
                                                ELSE allocated)
    /\ partial' = (partial /\ call.name \notin AddCalls)
    /\ UNCHANGED <<uid_insight_dict, last_insight_id, memo_store, disk_memos, call,
                   matches, ret, only_ok>>

\* pickle.dump(self.uid_insight_dict, file), the file is closed and the call returns
DumpDict ==
    /\ pc = "save_dump"
    /\ disk_dict' = PickleDump(uid_insight_dict)
    /\ pc' = "idle"
    /\ result' = "ok"
    /\ allocated' = (IF call.name \in AddCalls THEN Append(allocated, call.id_str)
                                                ELSE allocated)
    /\ partial' = (partial /\ call.name \notin AddCalls)
    /\ UNCHANGED <<uid_insight_dict, last_insight_id, memo_store, disk_memos, call,
                   matches, ret, only_ok>>

----------------------------------------------------------------------------
(* get_relevant_insights *)

relevance_conversion_threshold == 17
TopK == 25

\* a relevance with the subtraction turned round
RelevanceReversed(distance) == distance - relevance_conversion_threshold

\* relevance = relevance_conversion_threshold - match[2]
Relevance(distance) == relevance_conversion_threshold - distance

\* the sequences over S of length at most n
SeqsUpTo(S, n) == UNION {[1..m -> S] : m \in 0..n}

\* a match is (topic, insight id, distance), of an association the store holds
MatchesOf(store) ==
    {<<store[j][1], store[j][2], d>> : j \in 1..Len(store), d \in Distances}

\* The lists "matches" can be after the loop over topics: get_related_memos
\* returns at most TopK matches for each topic, and the lists are concatenated.
RelatedMemos(store, topics) ==
    {m \in SeqsUpTo(MatchesOf(store), MaxMatches) : Len(m) <= TopK * Len(topics)}

\* one round of "for match in matches"
Accumulate(insight_relevance_dict, insight_str, relevance) ==
    IF insight_str \in DOMAIN insight_relevance_dict
      THEN [insight_relevance_dict EXCEPT ![insight_str] = @ + relevance]
      ELSE Put(insight_relevance_dict, insight_str, relevance)

\* the loop "for match in matches", from the first round
RECURSIVE Aggregate(_, _)
Aggregate(ms, d) ==
    IF ms = <<>> THEN EmptyDict
    ELSE LET match == ms[Len(ms)]
         IN Accumulate(Aggregate(SubSeq(ms, 1, Len(ms) - 1), d),
                       d[match[2]].insight_str, Relevance(match[3]))

\* a filter that drops a relevance of zero too
DroppedAtZero(relevance) == relevance <= 0

\* "if insight_relevance_dict[insight] < 0: del"
Dropped(relevance) == relevance < 0

\* the filter loop
FilterNegative(insight_relevance_dict) ==
    [t \in {x \in DOMAIN insight_relevance_dict : ~Dropped(insight_relevance_dict[x])}
        |-> insight_relevance_dict[t]]

\* the call get_relevant_insights(task_str, topics)
QueryCall(task_str, topics) ==
    [name |-> "get_relevant_insights", topics |-> topics, id_str |-> "", reset |-> FALSE,
     task_str |-> task_str]

\* the first assertion alone
QueryAssertsEither(task_str, topics) == (task_str # NoneStr) \/ topics.some

\* assert (task_str is not None) or (topics is not None); assert topics is not None
QueryAsserts(task_str, topics) ==
    /\ (task_str # NoneStr) \/ topics.some
    /\ topics.some

\* a query whose filter loop deletes from self.uid_insight_dict as well
GetRelevantInsightsDeleting(task_str, topics) ==
    /\ pc = "idle"
    /\ pc' = "returned"
    /\ call' = QueryCall(task_str, topics)
    /\ IF ~QueryAsserts(task_str, topics)
         THEN /\ result' = "AssertionError"
              /\ matches' = <<>>
              /\ ret' = EmptyDict
              /\ UNCHANGED uid_insight_dict
         ELSE \E ms \in RelatedMemos(memo_store, topics.v) :
              /\ matches' = ms
              /\ IF \E i \in 1..Len(ms) : ms[i][2] \notin DOMAIN uid_insight_dict
                   THEN /\ result' = "KeyError"
                        /\ ret' = EmptyDict
                        /\ UNCHANGED uid_insight_dict
                   ELSE LET agg == Aggregate(ms, uid_insight_dict)
                            kept == {k \in DOMAIN uid_insight_dict :
                                       LET t == uid_insight_dict[k].insight_str
                                       IN ~(t \in DOMAIN agg /\ Dropped(agg[t]))}
                        IN /\ result' = "ok"
                           /\ ret' = FilterNegative(agg)
                           /\ uid_insight_dict' = [k \in kept |-> uid_insight_dict[k]]
    /\ UNCHANGED <<last_insight_id, memo_store, disk_memos, disk_dict, allocated, only_ok, partial>>

\* get_relevant_insights(task_str, topics), to its return or its exception
GetRelevantInsights(task_str, topics) ==
    /\ pc = "idle"
    /\ pc' = "returned"
    /\ call' = QueryCall(task_str, topics)
    /\ IF ~QueryAsserts(task_str, topics)
         THEN /\ result' = "AssertionError"
              /\ matches' = <<>>
              /\ ret' = EmptyDict
         ELSE \E ms \in RelatedMemos(memo_store, topics.v) :
              /\ matches' = ms
              /\ IF \E i \in 1..Len(ms) : ms[i][2] \notin DOMAIN uid_insight_dict
                   THEN /\ result' = "KeyError"
                        /\ ret' = EmptyDict
                   ELSE /\ result' = "ok"
                        /\ ret' = FilterNegative(Aggregate(ms, uid_insight_dict))
    /\ UNCHANGED <<uid_insight_dict, last_insight_id, memo_store, disk_memos, disk_dict,
                   allocated, only_ok, partial>>

\* the caller has taken the returned dict (or the exception): the call's frame is gone
QueryReturn ==
    /\ pc = "returned"
    /\ pc' = "idle"
    /\ matches' = <<>>
    /\ ret' = EmptyDict
    /\ UNCHANGED <<uid_insight_dict, last_insight_id, memo_store, disk_memos, disk_dict,
                   call, result, allocated, only_ok, partial>>

----------------------------------------------------------------------------
(* The archive's life, crashes included; and its use without crashes, queries included *)

Next ==
    \/ \E reset \in BOOLEAN : Construct(reset)
    \/ Crash
    \/ \E s \in InsightStrs, t \in AddTaskStrs, topics \in InsightTopicArgs : AddInsight(s, t, topics)
    \/ \E t \in TaskStrs \ {NoneStr}, d \in Demonstrations, topics \in DemonstrationTopicArgs :
          AddDemonstration(t, d, topics)
    \/ SaveArchive
    \/ SaveMemos
    \/ OpenDict
    \/ DumpDict

Spec == Init /\ [][Next]_vars

NextQ ==
    \/ Construct(TRUE)
    \/ \E s \in InsightStrs, t \in AddTaskStrs, topics \in InsightTopicArgs : AddInsight(s, t, topics)
    \/ \E t \in TaskStrs \ {NoneStr}, d \in Demonstrations, topics \in DemonstrationTopicArgs :
          AddDemonstration(t, d, topics)
    \/ SaveMemos
    \/ OpenDict
    \/ DumpDict
    \/ \E t \in TaskStrs, topics \in QueryTopicArgs : GetRelevantInsights(t, topics)
    \/ QueryReturn

SpecQ == Init /\ [][NextQ]_vars

----------------------------------------------------------------------------
(* Properties *)

Saving == {"save_memos", "save_open", "save_dump"}
State == <<uid_insight_dict, last_insight_id, memo_store, disk_memos, disk_dict>>

\* a step that is a call of add_insight or add_demonstration
AddStep == pc = "idle" /\ pc' # "down" /\ call'.name \in AddCalls

\* C1: on an archive object that started empty and on which every add call
\* has returned, the ids of the N adds are "1", ..., "N" in call order and
\* last_insight_id is N.
IdMonotonicity ==
    (pc = "idle" /\ only_ok) =>
        /\ allocated = [i \in 1..Len(allocated) |-> Str(i)]
        /\ last_insight_id = Len(allocated)

IdMonotonicityWitness ==
    pc = "idle" /\ only_ok /\ Len(allocated) = 2 /\ call.name = "add_demonstration"

\* C2: right after a construction and right after an add that returned,
\* last_insight_id is the number of entries of uid_insight_dict and the keys
\* are "1", ..., str(last_insight_id), whatever calls failed before.
CounterMatchesMapping ==
    (pc = "idle" /\ result = "ok" /\ call.name \in AddCalls \cup {"__init__"}) =>
        /\ last_insight_id = LenDict(uid_insight_dict)
        /\ DOMAIN uid_insight_dict = {Str(i) : i \in 1..last_insight_id}

\* C3: the id an add allocates is no key of uid_insight_dict at that moment,
\* and the add leaves every record the dict holds in place and unchanged.
AppendOnly ==
    [][(AddStep /\ last_insight_id' # last_insight_id) =>
          /\ call'.id_str \notin DOMAIN uid_insight_dict
          /\ \A k \in DOMAIN uid_insight_dict :
                k \in DOMAIN uid_insight_dict' /\ uid_insight_dict'[k] = uid_insight_dict[k]]_vars

\* C4: a construction without reset that follows a completed save_archive
\* (called by itself or at the end of an add) yields the dict that was saved,
\* and last_insight_id is the number of its entries.
ReloadFidelity ==
    [][(pc = "idle" /\ result = "ok" /\ call.name \in AddCalls \cup {"save_archive"}
          /\ call'.name = "__init__" /\ ~call'.reset) =>
          /\ pc' = "idle"
          /\ uid_insight_dict' = uid_insight_dict
          /\ last_insight_id' = LenDict(uid_insight_dict)]_vars

ReloadFidelityWitness ==
    /\ pc = "idle" /\ call.name = "__init__" /\ ~call.reset /\ result = "ok"
    /\ LenDict(uid_insight_dict) = 2 /\ last_insight_id = 2
    /\ Loadable(disk_dict) /\ disk_dict.items # <<>>

\* C5: when an add has returned, the file holds the dict as it is in memory,
\* the new insight included, and the memo store's directory holds the
\* associations as they are in memory.
SynchronousDurability ==
    (pc = "idle" /\ result = "ok" /\ call.name \in AddCalls) =>
        /\ Loadable(disk_dict)
        /\ LoadItems(disk_dict.items) = uid_insight_dict
        /\ call.id_str \in DOMAIN LoadItems(disk_dict.items)
        /\ disk_memos = memo_store

SynchronousDurabilityWitness ==
    /\ pc = "idle" /\ result = "ok" /\ call.name = "add_demonstration"
    /\ Len(disk_memos) >= 2 /\ Len(disk_dict.items) >= 1

\* C6: whenever the process may die, the file at path_to_dict is absent or a
\* complete snapshot: a load never meets a partly written file.
AtomicPersist == disk_dict.exists => Loadable(disk_dict)

\* C7: whenever the process may die, a construction without reset would
\* succeed and its dict would hold, unchanged, every insight whose add has
\* returned (the entries of the dict in memory, but the one being added).
InFlight == IF pc \in Saving /\ call.name \in AddCalls THEN {call.id_str} ELSE {}

CrashRecovery ==
    pc # "down" =>
        /\ disk_dict.exists => Loadable(disk_dict)
        /\ \A k \in (DOMAIN uid_insight_dict) \ InFlight :
              /\ disk_dict.exists
              /\ k \in DOMAIN LoadItems(disk_dict.items)
              /\ LoadItems(disk_dict.items)[k] = uid_insight_dict[k]

Returned == pc = "returned" /\ result = "ok" /\ call.name = "get_relevant_insights"

\* the text of the insight the i-th match resolves to
MatchText(i) == uid_insight_dict[matches[i][2]].insight_str

\* the sum of (1.7 - distance) over the matches of the set I that resolve to text
RECURSIVE SumOver(_, _)
SumOver(I, text) ==
    IF I = {} THEN 0
    ELSE LET i == CHOOSE j \in I : TRUE
         IN (IF MatchText(i) = text THEN relevance_conversion_threshold - matches[i][3] ELSE 0)
            + SumOver(I \ {i}, text)

Texts == {uid_insight_dict[k].insight_str : k \in DOMAIN uid_insight_dict}

\* C8: the score returned for a text is the sum of (1.7 - distance) over all
\* the matches, of all the topics, whose id resolves to an insight with that
\* text, the ids being the same or not.
AggregationSum ==
    Returned => \A t \in DOMAIN ret : ret[t] = SumOver(1..Len(matches), t)

AggregationSumWitness ==
    /\ Returned /\ Len(matches) = 2
    /\ matches[1][3] = 10 /\ matches[2][3] = 12
    /\ matches[1][2] # matches[2][2] /\ MatchText(1) = MatchText(2)
    /\ ret = (MatchText(1) :> 12)

\* C9: the returned dict holds a text if and only if some match resolves to
\* it and its summed relevance is not below zero; no returned score is
\* negative and a sum of exactly zero is kept.
NegativeExclusion ==
    Returned =>
        /\ DOMAIN ret \subseteq Texts
        /\ \A t \in Texts :
              t \in DOMAIN ret <=>
                  /\ \E i \in 1..Len(matches) : MatchText(i) = t
                  /\ SumOver(1..Len(matches), t) >= 0
        /\ \A t \in DOMAIN ret : ret[t] >= 0

NegativeExclusionWitness ==
    /\ Returned /\ Len(matches) = 2
    /\ matches[1][3] = 17 /\ matches[2][3] = 20
    /\ MatchText(1) # MatchText(2)
    /\ ret = (MatchText(1) :> 0)

\* C11: add_demonstration called with missing or empty topics fails as
\* add_insight does on its assertion, and changes neither the counter, the
\* dict nor the index.
DemonstrationTopicsRejected ==
    [][(AddStep /\ call'.name = "add_demonstration"
          /\ (~call'.topics.some \/ call'.topics.v = <<>>)) =>
          /\ result' = "AssertionError"
          /\ UNCHANGED <<last_insight_id, uid_insight_dict, memo_store>>]_vars

\* get_relevant_insights has ended, by a return or by an exception
QueryEnded == pc = "returned" /\ call.name = "get_relevant_insights"

\* C12 as stated: get_relevant_insights fails whenever topics is missing or
\* empty, with or without a task_str; it returns nothing for an empty list.
InvalidQueriesRejected ==
    (QueryEnded /\ (~call.topics.some \/ call.topics.v = <<>>)) => result = "AssertionError"

\* C12 as amended: get_relevant_insights fails on an assertion whenever topics
\* is missing (None), with or without a task_str, and returns no dict then.
MissingTopicsQueryRejected ==
    (QueryEnded /\ ~call.topics.some) => (result = "AssertionError" /\ ret = EmptyDict)

MissingTopicsQueryRejectedWitness ==
    /\ QueryEnded /\ ~call.topics.some /\ call.task_str = "T"
    /\ result = "AssertionError" /\ memo_store # <<>>


\* C13: a call of get_relevant_insights, returning or failing, leaves the
\* insight mapping, the id counter, the index and what is on disk as they were.
QueryNoMutation ==
    [][(pc = "idle" /\ QueryEnded') => UNCHANGED State]_vars

QueryNoMutationWitness ==
    /\ Returned /\ Len(matches) = 2
    /\ ret = EmptyDict /\ uid_insight_dict # EmptyDict


\* a construction with reset has completed and nothing has been called since
ResetDone == call.name = "__init__" /\ call.reset /\ result = "ok"

\* C14: after a construction with reset, a construction without reset over the
\* same location, no add in between, yields an empty mapping and counter 0:
\* the reset wiped the prior snapshot.
ResetWipesSnapshot ==
    [][(ResetDone /\ call'.name = "__init__" /\ ~call'.reset) =>
          (pc' = "idle" /\ uid_insight_dict' = EmptyDict /\ last_insight_id' = 0)]_vars


\* C15: a construction without reset over a snapshot file that exists and
\* cannot be deserialized fails with an error the caller gets; it never
\* completes with an empty mapping and counter 0.
CorruptSnapshotFatal ==
    (call.name = "__init__" /\ ~call.reset /\ disk_dict.exists /\ ~disk_dict.stop) =>
        (pc = "down" /\ result = "UnpicklingError")

CorruptSnapshotFatalWitness ==
    /\ call.name = "__init__" /\ ~call.reset
    /\ disk_dict.exists /\ ~disk_dict.stop
    /\ pc = "down" /\ result = "UnpicklingError"


\* the summed relevance the matches ms give the insight text t (0: no match)
Score(ms, t) ==
    LET agg == Aggregate(ms, uid_insight_dict)
    IN IF t \in DOMAIN agg THEN agg[t] ELSE 0

\* the matches of the query without its last topic, that topic having
\* brought the matches after the k-th
Without(k) == SubSeq(matches, 1, k)

\* C16 as stated: one more query topic whose matches include an insight gives
\* that insight a strictly higher summed relevance than the query without it.
MoreTopicsStrictlyHigher ==
    Returned =>
        \A k \in 0..(Len(matches) - 1) : \A i \in (k + 1)..Len(matches) :
            Score(matches, MatchText(i)) > Score(Without(k), MatchText(i))

\* C16 as amended: the same, for an added topic all of whose matches of the
\* insight are nearer than the threshold 1.7.
NearTopicsStrictlyHigher ==
    Returned =>
        \A k \in 0..(Len(matches) - 1) : \A i \in (k + 1)..Len(matches) :
            (\A j \in (k + 1)..Len(matches) :
                 MatchText(j) = MatchText(i) => matches[j][3] < relevance_conversion_threshold)
            => Score(matches, MatchText(i)) > Score(Without(k), MatchText(i))

NearTopicsStrictlyHigherWitness ==
    /\ Returned /\ Len(matches) = 2
    /\ MatchText(1) = MatchText(2) /\ matches[1][1] # matches[2][1]
    /\ matches[1][3] = 20 /\ matches[2][3] = 12
    /\ Score(matches, MatchText(2)) = 2 /\ Score(Without(1), MatchText(2)) = -3


\* C17: a successful add_demonstration(task, demonstration, topics) has stored,
\* under the key that is its id field, an insight with the text
\* "Example task:\n\n" + task + "\nExample solution:\n\n" + demonstration,
\* with task_str = task and with the given topics.
DemonstrationFormat ==
    (pc = "idle" /\ result = "ok" /\ call.name = "add_demonstration") =>
        /\ call.id_str \in DOMAIN uid_insight_dict
        /\ LET r == uid_insight_dict[call.id_str]
           IN /\ r.id = call.id_str
              /\ r.topics = call.topics.v
              /\ \E task \in TaskStrs \ {NoneStr}, demonstration \in Demonstrations :
                     /\ r.task_str = task
                     /\ r.insight_str =
                          "Example task:\n\n" \o task \o "\nExample solution:\n\n" \o demonstration

DemonstrationFormatWitness ==
    /\ pc = "idle" /\ result = "ok" /\ call.name = "add_demonstration"
    /\ call.id_str = "2" /\ call.topics.v = <<"t1", "t2">>
    /\ uid_insight_dict["2"].insight_str = "Example task:\n\nT\nExample solution:\n\nD"
    /\ uid_insight_dict["2"].task_str = "T"


\* the durable index and the durable snapshot agree: every association of the
\* flushed index refers to an id of the snapshot, and every insight of the
\* snapshot has all its topics in the flushed index
DurableConsistent ==
    /\ disk_dict.exists /\ disk_dict.stop
    /\ LET d == PickleLoad(disk_dict)
       IN /\ \A i \in 1..Len(disk_memos) : disk_memos[i][2] \in DOMAIN d
          /\ \A k \in DOMAIN d : \A j \in 1..Len(d[k].topics) :
                 \E i \in 1..Len(disk_memos) : disk_memos[i] = <<d[k].topics[j], k>>

\* C18: when an add has failed part-way, the durable index and the durable
\* snapshot are consistent again once the next add has returned.
ConsistentAfterNextAdd ==
    [][(partial /\ pc = "save_dump" /\ pc' = "idle" /\ call.name \in AddCalls) =>
          DurableConsistent']_vars


\* C19: every association (topic, id) the index holds refers to a key of the
\* insight mapping whose record lists the topic, so that the lookup of a
\* matched id in get_relevant_insights never fails.
ReferentialIntegrity ==
    pc = "idle" =>
        \A i \in 1..Len(memo_store) :
            /\ memo_store[i][2] \in DOMAIN uid_insight_dict
            /\ \E j \in 1..Len(uid_insight_dict[memo_store[i][2]].topics) :
                   uid_insight_dict[memo_store[i][2]].topics[j] = memo_store[i][1]


\* C20: at every crash point every insight of the durable snapshot has, for
\* each of its topics, an association in the durable index: the snapshot
\* never runs ahead of the index.
SnapshotNotAhead ==
    (disk_dict.exists /\ disk_dict.stop) =>
        LET d == PickleLoad(disk_dict)
        IN \A k \in DOMAIN d : \A j \in 1..Len(d[k].topics) :
               \E i \in 1..Len(disk_memos) : disk_memos[i] = <<d[k].topics[j], k>>

====
